---- MODULE Spec2Model ----
(***************************************************************************)
(* Model of cloud_function/main.py: the long-term-leave eligibility        *)
(* computation (parse_date, get_interval_and_amount, merge_intervals,      *)
(* compute_long_term_emails), the Okta group reconciler (sync_okta_group)  *)
(* and the entry point time_off_tracking with its secret resolution.       *)
(*                                                                         *)
(* Dates are day numbers.  Three specifications share the module:          *)
(*   SpecMerge  merge_intervals on arbitrary interval lists                *)
(*   SpecElig   compute_long_term_emails consuming a record stream         *)
(*   Spec       time_off_tracking invocations, including sync_okta_group   *)
(***************************************************************************)
EXTENDS Integers, Sequences, FiniteSets

VARIABLES
    \* ---- merge_intervals harness (SpecMerge)
    intervals,          \* the argument of merge_intervals
    shuffled,           \* a permutation of intervals
    merged,             \* merge_intervals(intervals)
    merged_shuffled,    \* merge_intervals(shuffled)
    remerged,           \* merge_intervals(merged)
    mpc,                \* position of the harness
    \* ---- compute_long_term_emails (SpecElig)
    today,              \* dt.date.today() of the invocation
    user_intervals,     \* email -> list of (start, end)
    user_amounts,       \* email -> list of (start, end, amount)
    entry,              \* the record the for loop holds
    interval_amount,    \* what get_interval_and_amount returned for entry
    consumed,           \* records pulled from the iterator so far
    epc,                \* position inside compute_long_term_emails
    long_term_emails,   \* the returned set (also the local of time_off_tracking)
    \* ---- time_off_tracking and sync_okta_group (Spec)
    OKTA_ORG_URL,           \* module global, from the environment
    OKTA_GROUP_ID,          \* module global, reassigned by time_off_tracking
    OKTA_GROUP_ID_SECRET,   \* secret names, "" when not configured
    OKTA_API_TOKEN_SECRET,
    DEEL_API_TOKEN_SECRET,
    project_id,             \* what _get_project_id returns
    secret_payload,         \* Secret Manager: name -> latest payload
    secret_cache,           \* _secret_cache
    pc,                     \* position inside time_off_tracking
    result,                 \* how the latest invocation ended
    okta_group_id,          \* locals of time_off_tracking
    okta_token,
    deel_token,
    current_members,        \* locals of sync_okta_group
    to_add,
    to_remove,
    add_queue,              \* what is left of sorted(to_add)
    remove_queue,           \* what is left of sorted(to_remove)
    user_id,
    warned,                 \* identities logged "Okta user not found"
    directory,              \* Okta: the identities that have a user
    group,                  \* Okta: the user ids in the group
    calls,                  \* the requests of the latest invocation, in order
    prev                    \* the invocation before it: how it ended

mergeVars == <<intervals, shuffled, merged, merged_shuffled, remerged, mpc>>
eligVars == <<today, user_intervals, user_amounts, entry, interval_amount,
              consumed, epc, long_term_emails>>
configVars == <<OKTA_ORG_URL, OKTA_GROUP_ID_SECRET, OKTA_API_TOKEN_SECRET,
                DEEL_API_TOKEN_SECRET, project_id, secret_payload, directory>>
tokenVars == <<okta_group_id, okta_token, deel_token>>
planVars == <<current_members, to_add, to_remove, add_queue, remove_queue,
              user_id, warned>>
syncVars == <<configVars, OKTA_GROUP_ID, secret_cache, pc, result,
              tokenVars, planVars, group, calls, prev>>
vars == <<mergeVars, eligVars, syncVars>>

None == "None"

Max(a, b) == IF a >= b THEN a ELSE b

\* All lists over S of length at most n.
ListsUpTo(S, n) == UNION {[1..k -> S] : k \in 0..n}

(***************************************************************************)
(* merge_intervals                                                         *)
(***************************************************************************)

\* One insertion of Python's stable sorted(..., key=item[0]): item goes after
\* every element whose start is <= its own.
RECURSIVE InsertByStart(_, _)
InsertByStart(item, sorted) ==
    IF sorted = <<>> THEN <<item>>
    ELSE IF item[1] < Head(sorted)[1] THEN <<item>> \o sorted
    ELSE <<Head(sorted)>> \o InsertByStart(item, Tail(sorted))

RECURSIVE StableSortByStart(_)
StableSortByStart(items) ==
    IF items = <<>> THEN <<>>
    ELSE InsertByStart(items[Len(items)],
                       StableSortByStart(SubSeq(items, 1, Len(items) - 1)))

\* Faulty variant: the list is swept in the order given.
intervals_unsorted(items) == items

\* intervals_sorted = sorted(intervals, key=lambda item: item[0])
intervals_sorted(items) == StableSortByStart(items)

\* Faulty variant: a two-day gap is closed as well.
mergeable_gap_two(start, current_end) == start <= current_end + 2

\* start <= current_end + dt.timedelta(days=1)
mergeable(start, current_end) == start <= current_end + 1

\* The for loop of merge_intervals over intervals_sorted[1:], and the final append.
RECURSIVE Sweep(_, _, _, _)
Sweep(rest, current_start, current_end, acc) ==
    IF rest = <<>> THEN Append(acc, <<current_start, current_end>>)
    ELSE LET start == Head(rest)[1]
             end == Head(rest)[2]
         IN  IF mergeable(start, current_end)
             THEN Sweep(Tail(rest), current_start, Max(current_end, end), acc)
             ELSE Sweep(Tail(rest), start, end,
                        Append(acc, <<current_start, current_end>>))

merge_intervals(items) ==
    IF items = <<>> THEN <<>>
    ELSE LET srt == intervals_sorted(items)
         IN  Sweep(Tail(srt), srt[1][1], srt[1][2], <<>>)

(***************************************************************************)
(* Raw leave records.  A raw date is <<"none", 0>> (absent, None or empty), *)
(* <<"garbage", 0>> (a string neither ISO form parses) or <<"iso", d>> (an *)
(* ISO date or date-time string of day d).  A raw amount is <<"none", 0>>  *)
(* (absent or None), <<"text", 0>> (a string float() rejects, such as      *)
(* "n/a") or <<"num", n>>.  An optional value is <<>> or a tuple.          *)
(***************************************************************************)
MaxDay == 2
MaxEntries == 2

\* LONG_TERM_MIN_DAYS and LONG_TERM_MIN_AMOUNT are read from the environment
\* (defaults 30 and 30); the model runs on a calendar of MaxDay + 1 days and
\* sets them to values that calendar can reach and miss.
LONG_TERM_MIN_DAYS == 2
LONG_TERM_MIN_AMOUNT == 3

Days == 0..MaxDay
RawDates == {<<"none", 0>>, <<"garbage", 0>>} \cup {<<"iso", d>> : d \in Days}
RawAmounts == {<<"none", 0>>, <<"text", 0>>, <<"num", 1>>, <<"num", 2>>}
\* The first non-empty e-mail field of a record, "" when there is none.
RawEmails == {"", "A@x.com", "b@x.com"}
Entries == [email : RawEmails, start_date : RawDates, end_date : RawDates,
            amount : RawAmounts]
BlankEntry == [email |-> "", start_date |-> <<"none", 0>>,
               end_date |-> <<"none", 0>>, amount |-> <<"none", 0>>]

\* str(email).lower()
Lower(s) == CASE s = "A@x.com" -> "a@x.com"
              [] s = "B@x.com" -> "b@x.com"
              [] s = "C@x.com" -> "c@x.com"
              [] OTHER -> s

\* extract_email: the first non-empty match, lower-cased; "" for no identity.
extract_email(e) == IF e.email = "" THEN "" ELSE Lower(e.email)

\* parse_date: <<d>> for a value either ISO parser accepts, <<>> (None) for a
\* falsy value and for a string both parsers reject.
parse_date(value) == IF value[1] = "iso" THEN <<value[2]>> ELSE <<>>

\* Faulty variant: only the start of the interval is tested against the window.
in_window_start_only(start, end, window_start, window_end) == start <= window_end

\* start <= window_end and end >= window_start
in_window(start, end, window_start, window_end) ==
    start <= window_end /\ end >= window_start

\* get_interval_and_amount: <<start, end, amount>>, or <<>> for None.
get_interval_and_amount(e, window_start, window_end) ==
    LET start == parse_date(e.start_date)
        end_parsed == parse_date(e.end_date)
        end == IF end_parsed # <<>> THEN end_parsed ELSE start
    IN  IF ~(start # <<>> /\ end # <<>>
             /\ in_window(start[1], end[1], window_start, window_end))
        THEN <<>>
        ELSE IF e.amount[1] = "none" THEN <<>>
        ELSE IF e.amount[1] = "text" THEN <<>>
        ELSE <<start[1], end[1], e.amount[2]>>

\* d.setdefault(key, []).append(value)
setdefault_append(d, key, value) ==
    [k \in DOMAIN d \cup {key} |->
        IF k \in DOMAIN d
        THEN (IF k = key THEN Append(d[k], value) ELSE d[k])
        ELSE <<value>>]

\* One iteration of `for entry in entries`: the two ledgers afterwards.
ledgers_after(e, ui, ua, td) ==
    LET email == extract_email(e)
        got == get_interval_and_amount(e, td, td)
    IN  IF email = "" \/ got = <<>>
        THEN <<ui, ua>>
        ELSE <<setdefault_append(ui, email, <<got[1], got[2]>>),
               setdefault_append(ua, email, got)>>

\* total_amount of one merged span: the inner loop over user_amounts.
RECURSIVE total_amount(_, _, _)
total_amount(amounts, interval_start, interval_end) ==
    IF amounts = <<>> THEN 0
    ELSE LET start == Head(amounts)[1]
             end == Head(amounts)[2]
             amount_val == Head(amounts)[3]
         IN  (IF start <= interval_end /\ end >= interval_start
              THEN amount_val ELSE 0)
             + total_amount(Tail(amounts), interval_start, interval_end)

\* Faulty variant: off by one, a span of exactly LONG_TERM_MIN_DAYS days is skipped.
span_too_short_off_by_one(interval_days) == interval_days <= LONG_TERM_MIN_DAYS

\* interval_days < LONG_TERM_MIN_DAYS
span_too_short(interval_days) == interval_days < LONG_TERM_MIN_DAYS

\* The loop over the merged spans of one user, with its continue and break.
RECURSIVE any_span_long_term(_, _)
any_span_long_term(spans, amounts) ==
    IF spans = <<>> THEN FALSE
    ELSE LET interval_start == Head(spans)[1]
             interval_end == Head(spans)[2]
             interval_days == (interval_end - interval_start) + 1
         IN  IF span_too_short(interval_days)
             THEN any_span_long_term(Tail(spans), amounts)
             ELSE IF total_amount(amounts, interval_start, interval_end)
                        >= LONG_TERM_MIN_AMOUNT
                  THEN TRUE
                  ELSE any_span_long_term(Tail(spans), amounts)

\* user_amounts.get(email, [])
amounts_of(ua, email) == IF email \in DOMAIN ua THEN ua[email] ELSE <<>>

\* The second loop of compute_long_term_emails.
eligible_emails(ui, ua) ==
    {email \in DOMAIN ui :
        any_span_long_term(merge_intervals(ui[email]), amounts_of(ua, email))}

\* The values the variables of a harness or computation hold while another
\* specification runs.
MergeIdle ==
    /\ intervals = <<>>
    /\ shuffled = <<>>
    /\ merged = <<>>
    /\ merged_shuffled = <<>>
    /\ remerged = <<>>
    /\ mpc = "off"

EligIdle ==
    /\ today = 0
    /\ user_intervals = <<>>
    /\ user_amounts = <<>>
    /\ entry = BlankEntry
    /\ interval_amount = <<>>
    /\ consumed = 0
    /\ epc = "off"
    /\ long_term_emails = {}

NoPrevious == [completed |-> FALSE, eligible |-> {}, members |-> {}, warned |-> {}]

SyncIdle ==
    /\ OKTA_ORG_URL = ""
    /\ OKTA_GROUP_ID = ""
    /\ OKTA_GROUP_ID_SECRET = ""
    /\ OKTA_API_TOKEN_SECRET = ""
    /\ DEEL_API_TOKEN_SECRET = ""
    /\ project_id = ""
    /\ secret_payload = <<>>
    /\ secret_cache = <<>>
    /\ pc = "off"
    /\ result = "none"
    /\ okta_group_id = None
    /\ okta_token = None
    /\ deel_token = None
    /\ current_members = <<>>
    /\ to_add = {}
    /\ to_remove = {}
    /\ add_queue = <<>>
    /\ remove_queue = <<>>
    /\ user_id = None
    /\ warned = {}
    /\ directory = {}
    /\ group = {}
    /\ calls = <<>>
    /\ prev = NoPrevious

\* The first loop of compute_long_term_emails over a whole record list.
RECURSIVE ingest(_, _, _, _)
ingest(entries, ui, ua, td) ==
    IF entries = <<>> THEN <<ui, ua>>
    ELSE LET after == ledgers_after(Head(entries), ui, ua, td)
         IN  ingest(Tail(entries), after[1], after[2], td)

compute_long_term_emails(entries, td) ==
    LET ledgers == ingest(entries, <<>>, <<>>, td)
    IN  eligible_emails(ledgers[1], ledgers[2])

(***************************************************************************)
(* SpecElig: compute_long_term_emails pulling records from its iterator.   *)
(***************************************************************************)
InitElig ==
    /\ today \in Days
    /\ user_intervals = <<>>
    /\ user_amounts = <<>>
    /\ entry = BlankEntry
    /\ interval_amount = <<>>
    /\ consumed = 0
    /\ epc = "ingest"
    /\ long_term_emails = {}
    /\ MergeIdle
    /\ SyncIdle

\* The head of an iteration of `for entry in entries`: the next record is
\* pulled, its identity and its interval and amount are extracted.
ExtractEntry(e) ==
    /\ epc = "ingest"
    /\ consumed < MaxEntries
    /\ consumed' = consumed + 1
    /\ entry' = e
    /\ interval_amount' = IF extract_email(e) = "" THEN <<>>
                           ELSE get_interval_and_amount(e, today, today)
    /\ epc' = "append"
    /\ UNCHANGED <<today, user_intervals, user_amounts, long_term_emails,
                   mergeVars, syncVars>>

\* The rest of the iteration: `continue`, or the two appends.  The loop
\* variables are dead afterwards and are forgotten.
AppendEntry ==
    /\ epc = "append"
    /\ user_intervals' = ledgers_after(entry, user_intervals, user_amounts, today)[1]
    /\ user_amounts' = ledgers_after(entry, user_intervals, user_amounts, today)[2]
    /\ entry' = BlankEntry
    /\ interval_amount' = <<>>
    /\ epc' = "ingest"
    /\ UNCHANGED <<today, consumed, long_term_emails, mergeVars, syncVars>>

\* The iterator is exhausted: the second loop runs and the set is returned.
ReturnEligible ==
    /\ epc = "ingest"
    /\ long_term_emails' = eligible_emails(user_intervals, user_amounts)
    /\ epc' = "done"
    /\ UNCHANGED <<today, user_intervals, user_amounts, entry, interval_amount,
                   consumed, mergeVars, syncVars>>

NextElig == (\E e \in Entries : ExtractEntry(e)) \/ AppendEntry \/ ReturnEligible

SpecElig == InitElig /\ [][NextElig]_vars

\* The amounts of a list of (start, end, amount) pairs, added up.
RECURSIVE SumAmounts(_)
SumAmounts(pairs) ==
    IF pairs = <<>> THEN 0 ELSE Head(pairs)[3] + SumAmounts(Tail(pairs))

SpanDays(span) == (span[2] - span[1]) + 1

\* The ledger pairs whose interval intersects the span.
IntersectingPairs(pairs, span) ==
    SelectSeq(pairs, LAMBDA p : p[1] <= span[2] /\ p[2] >= span[1])

LedgerOf(email) == amounts_of(user_amounts, email)

MergedSpansOf(email) ==
    LET ledger == LedgerOf(email)
    IN  merge_intervals([i \in 1..Len(ledger) |-> <<ledger[i][1], ledger[i][2]>>])

SpanIsLongTerm(email, span) ==
    /\ SpanDays(span) >= LONG_TERM_MIN_DAYS
    /\ SumAmounts(IntersectingPairs(LedgerOf(email), span)) >= LONG_TERM_MIN_AMOUNT

EligIdentities == {Lower(e) : e \in RawEmails \ {""}}

\* C6: an identity is in the result of compute_long_term_emails exactly when
\* some merged span of its ledger has spanDays >= LONG_TERM_MIN_DAYS and a total
\* amount (over the ledger pairs intersecting the span) >= LONG_TERM_MIN_AMOUNT;
\* meeting one threshold without the other never yields eligibility.
C6_EligibleIffSpanMeetsBoth ==
    epc = "done" =>
        \A email \in EligIdentities :
            email \in long_term_emails <=>
                \E i \in 1..Len(MergedSpansOf(email)) :
                    SpanIsLongTerm(email, MergedSpansOf(email)[i])

\* An identity is eligible through the merge and the sum only: no record of its
\* ledger reaches either threshold alone.
C6_Witness ==
    /\ epc = "done"
    /\ "a@x.com" \in long_term_emails
    /\ \A i \in 1..Len(LedgerOf("a@x.com")) :
          /\ LedgerOf("a@x.com")[i][3] < LONG_TERM_MIN_AMOUNT
          /\ SpanDays(LedgerOf("a@x.com")[i]) < LONG_TERM_MIN_DAYS + 1
    /\ \E i \in 1..Len(LedgerOf("a@x.com")) :
          SpanDays(LedgerOf("a@x.com")[i]) < LONG_TERM_MIN_DAYS

\* A record the data model calls unusable: a date that does not parse, or an
\* amount that is missing or not numeric.
Unusable(e) ==
    \/ e.start_date[1] = "garbage"
    \/ e.end_date[1] = "garbage"
    \/ e.amount[1] \in {"none", "text"}

\* C9: a record with an unparsable start_date or end_date, or a missing or
\* non-numeric amount, is dropped: get_interval_and_amount returns None for it
\* and no ledger changes.
C9_UnusableRecordDropped ==
    [][(epc = "append" /\ Unusable(entry))
          => (/\ interval_amount = <<>>
              /\ user_intervals' = user_intervals
              /\ user_amounts' = user_amounts)]_vars

\* C10: every pair of every ledger satisfies start <= today <= end, so
\* merge_intervals returns exactly one span for every identity with a ledger,
\* the span contains today, and its total amount is the sum of all the amounts
\* of the ledger.
C10_LedgerOverlapsToday ==
    /\ DOMAIN user_amounts = DOMAIN user_intervals
    /\ \A email \in DOMAIN user_intervals :
          LET ivs == user_intervals[email]
              spans == merge_intervals(ivs)
          IN  /\ Len(ivs) > 0
              /\ Len(user_amounts[email]) = Len(ivs)
              /\ \A i \in 1..Len(ivs) :
                    /\ ivs[i][1] <= today /\ today <= ivs[i][2]
                    /\ user_amounts[email][i][1] = ivs[i][1]
                    /\ user_amounts[email][i][2] = ivs[i][2]
              /\ Len(spans) = 1
              /\ spans[1][1] <= today /\ today <= spans[1][2]
              /\ total_amount(user_amounts[email], spans[1][1], spans[1][2])
                    = SumAmounts(user_amounts[email])

\* A ledger of two pairs, neither containing the other, merged into one span
\* longer than both.
C10_Witness ==
    \E email \in DOMAIN user_intervals :
        LET ivs == user_intervals[email]
        IN  /\ Len(ivs) = 2
            /\ ivs[1][1] < ivs[2][1]
            /\ ivs[1][2] < ivs[2][2]
            /\ merge_intervals(ivs) = <<(<<ivs[1][1], ivs[2][2]>>)>>

(***************************************************************************)
(* SpecMerge: merge_intervals applied to every bounded interval list, to a *)
(* permutation of it, and to its own output.                               *)
(***************************************************************************)
MergeMaxDay == 3
MaxIntervals == 3

MergeDays == 0..MergeMaxDay
\* Interval: a closed range with start <= end.
Intervals == {iv \in MergeDays \X MergeDays : iv[1] <= iv[2]}

IndexPermutations(n) == {p \in [1..n -> 1..n] : \A i, j \in 1..n : p[i] = p[j] => i = j}
Permuted(items, p) == [i \in 1..Len(items) |-> items[p[i]]]

InitMerge ==
    /\ intervals \in ListsUpTo(Intervals, MaxIntervals)
    /\ shuffled = intervals
    /\ merged = <<>>
    /\ merged_shuffled = <<>>
    /\ remerged = <<>>
    /\ mpc = "input"
    /\ EligIdle
    /\ SyncIdle

\* merge_intervals(intervals)
MergeCall ==
    /\ mpc = "input"
    /\ merged' = merge_intervals(intervals)
    /\ mpc' = "merged"
    /\ UNCHANGED <<intervals, shuffled, merged_shuffled, remerged, eligVars, syncVars>>

\* merge_intervals on a permutation of the same list
MergeShuffled ==
    /\ mpc = "merged"
    /\ \E p \in IndexPermutations(Len(intervals)) :
          /\ shuffled' = Permuted(intervals, p)
          /\ merged_shuffled' = merge_intervals(shuffled')
    /\ mpc' = "shuffled"
    /\ UNCHANGED <<intervals, merged, remerged, eligVars, syncVars>>

\* merge_intervals on the output of merge_intervals
MergeAgain ==
    /\ mpc = "merged"
    /\ remerged' = merge_intervals(merged)
    /\ mpc' = "remerged"
    /\ UNCHANGED <<intervals, shuffled, merged, merged_shuffled, eligVars, syncVars>>

NextMerge == MergeCall \/ MergeShuffled \/ MergeAgain

SpecMerge == InitMerge /\ [][NextMerge]_vars

\* An already-merged list: sorted, disjoint, and no two neighbours within the
\* one-day gap tolerance.
IsMergedList(items) ==
    /\ \A i \in 1..Len(items) : items[i][1] <= items[i][2]
    /\ \A i \in 1..(Len(items) - 1) : items[i + 1][1] > items[i][2] + 1

\* C7: merge_intervals returns the same merged list for every permutation of
\* its input (every interval with start <= end).
C7_MergeOrderIndependent ==
    mpc = "shuffled" => merged_shuffled = merged

\* The input holds two intervals that merge, was really reordered, and the
\* merged result still has two spans.
C7_Witness ==
    /\ mpc = "shuffled"
    /\ shuffled # intervals
    /\ Len(intervals) = MaxIntervals
    /\ Len(merged) = 2
    /\ \E i, j \in 1..Len(intervals) : i # j /\ intervals[i][1] = intervals[j][1]
                                         /\ intervals[i][2] # intervals[j][2]

\* C8: merge_intervals leaves an already-merged (sorted, disjoint, gaps of more
\* than one day) list unchanged; every output of merge_intervals is such a list,
\* so merging it again returns it.
C8_MergeIdempotent ==
    /\ (mpc # "input" /\ IsMergedList(intervals)) => merged = intervals
    /\ mpc # "input" => IsMergedList(merged)
    /\ mpc = "shuffled" => IsMergedList(merged_shuffled)
    /\ mpc = "remerged" => remerged = merged

\* A two-span output merged again, from an input that was not itself merged.
C8_Witness ==
    /\ mpc = "remerged"
    /\ Len(merged) = 2
    /\ ~IsMergedList(intervals)
    /\ remerged = merged

(***************************************************************************)
(* Okta, Secret Manager and the record source as time_off_tracking sees    *)
(* them.                                                                   *)
(***************************************************************************)
Identities == {"a@x.com", "b@x.com", "c@x.com"}
IdentityOrder == <<"a@x.com", "b@x.com", "c@x.com">>

\* sorted(...) of a set of identities
sorted(S) == SelectSeq(IdentityOrder, LAMBDA e : e \in S)

\* The id Okta gives the user of an identity, and back.  Okta holds at most
\* one user per identity and every user has an id, so current_members maps
\* each member's identity to a non-empty id and the `if not user_id` guard of
\* the remove loop never skips.
okta_user_id(e) == CASE e = "a@x.com" -> "00u_a"
                     [] e = "b@x.com" -> "00u_b"
                     [] OTHER -> "00u_c"
UserIds == {okta_user_id(e) : e \in Identities}
email_of_user(u) == CHOOSE e \in Identities : okta_user_id(e) = u

\* Faulty variant: `is None` where the code tests truthiness.
is_none(x) == x = None

\* `not x` for an Optional[str]
Falsy(x) == x \in {None, ""}

GroupIdSecretName == "okta-group-id"
OktaTokenSecretName == "okta-api-token"
DeelTokenSecretName == "projects/p/secrets/deel-api-token"
SecretNames == {GroupIdSecretName, OktaTokenSecretName, DeelTokenSecretName}

\* secret_name.startswith("projects/")
starts_with_projects(secret_name) == secret_name = DeelTokenSecretName

\* _get_secret_value: the outcomes of one call.  raised: RuntimeError (no
\* project id) or a Secret Manager error; fetched: access_secret_version was
\* called.
get_secret_value(secret_name, cache) ==
    IF secret_name = ""
    THEN {[raised |-> FALSE, fetched |-> FALSE, value |-> None, cache |-> cache]}
    ELSE IF secret_name \in DOMAIN cache
    THEN {[raised |-> FALSE, fetched |-> FALSE, value |-> cache[secret_name],
           cache |-> cache]}
    ELSE IF ~starts_with_projects(secret_name) /\ project_id = ""
    THEN {[raised |-> TRUE, fetched |-> FALSE, value |-> None, cache |-> cache]}
    ELSE {[raised |-> TRUE, fetched |-> TRUE, value |-> None, cache |-> cache],
          [raised |-> FALSE, fetched |-> TRUE,
           value |-> secret_payload[secret_name],
           cache |-> [n \in DOMAIN cache \cup {secret_name} |->
                         IF n = secret_name THEN secret_payload[secret_name]
                         ELSE cache[n]]]}

\* The messages of the four early returns of time_off_tracking.
ORG_URL_MESSAGE == "OKTA_ORG_URL not set"
GROUP_ID_MESSAGE == "OKTA_GROUP_ID not set"
OKTA_TOKEN_MESSAGE == "OKTA_API_TOKEN not set"
DEEL_TOKEN_MESSAGE == "DEEL_API_TOKEN not set"
ConfigMessages == {ORG_URL_MESSAGE, GROUP_ID_MESSAGE, OKTA_TOKEN_MESSAGE,
                   DEEL_TOKEN_MESSAGE}

\* Faulty variant: the HTTP status is not looked at.
status_ignored(ok) == TRUE

\* resp.raise_for_status(): whether execution goes on after it.
raise_for_status(ok) == ok

\* Faulty variant: every member is scheduled for removal.
to_remove_all_members(eligible, current_emails) == current_emails

\* to_remove = current_emails - long_term_emails
plan_to_remove(eligible, current_emails) == current_emails \ eligible

\* Faulty variant: every eligible identity is scheduled for addition.
to_add_all_eligible(eligible, current_emails) == eligible

\* to_add = long_term_emails - current_emails
plan_to_add(eligible, current_emails) == eligible \ current_emails

\* Faulty variant: a lookup miss ends the add loop (break).
lookup_miss_break(queue) == <<>>

\* `continue` after "Okta user not found": the loop goes on with the rest.
lookup_miss_continue(queue) == Tail(queue)

\* _okta_lookup_user_id, given that the request succeeded
okta_lookup_user_id(email) ==
    IF email \in directory THEN okta_user_id(email) ELSE None

\* _okta_list_group_users, given that the requests succeeded
okta_list_group_users ==
    [e \in {email_of_user(u) : u \in group} |-> okta_user_id(e)]

\* current_members.get(email)
members_get(members, email) ==
    IF email \in DOMAIN members THEN members[email] ELSE None

\* What the record source returns: for every set S of identities, the records
\* that put exactly S on long-term leave today (two records reaching
\* LONG_TERM_MIN_AMOUNT together), the others with one record that does not.
LeaveRecord(e, n) ==
    [email |-> IF e = "a@x.com" THEN "A@x.com" ELSE e,
     start_date |-> <<"iso", 0>>, end_date |-> <<"iso", MaxDay>>,
     amount |-> <<"num", n>>]
RecordsOf(e, S) ==
    IF e \in S THEN <<LeaveRecord(e, 2), LeaveRecord(e, 1)>>
    ELSE <<LeaveRecord(e, 2)>>
RecordsFor(S) ==
    RecordsOf("a@x.com", S) \o RecordsOf("b@x.com", S) \o RecordsOf("c@x.com", S)

Call(kind, email, ok) == [kind |-> kind, email |-> email, ok |-> ok]

(***************************************************************************)
(* Spec: invocations of time_off_tracking in one process.                  *)
(***************************************************************************)
Init ==
    /\ OKTA_ORG_URL \in {"", "https://org.okta.com"}
    /\ OKTA_GROUP_ID \in {"", "00g_env"}
    /\ OKTA_GROUP_ID_SECRET \in {"", GroupIdSecretName}
    /\ OKTA_API_TOKEN_SECRET \in {"", OktaTokenSecretName}
    /\ DEEL_API_TOKEN_SECRET \in {"", DeelTokenSecretName}
    /\ project_id \in {"", "proj"}
    /\ secret_payload \in [SecretNames -> {"", "payload"}]
    /\ \A n \in SecretNames :
          n \notin {OKTA_GROUP_ID_SECRET, OKTA_API_TOKEN_SECRET, DEEL_API_TOKEN_SECRET}
             => secret_payload[n] = ""
    /\ secret_cache = <<>>
    /\ pc = "idle"
    /\ result = "none"
    /\ okta_group_id = None
    /\ okta_token = None
    /\ deel_token = None
    /\ current_members = <<>>
    /\ to_add = {}
    /\ to_remove = {}
    /\ add_queue = <<>>
    /\ remove_queue = <<>>
    /\ user_id = None
    /\ warned = {}
    /\ directory \in SUBSET Identities
    /\ group \in SUBSET {okta_user_id(e) : e \in directory}
    /\ calls = <<>>
    /\ prev = NoPrevious
    /\ today \in Days
    /\ user_intervals = <<>>
    /\ user_amounts = <<>>
    /\ entry = BlankEntry
    /\ interval_amount = <<>>
    /\ consumed = 0
    /\ epc = "off"
    /\ long_term_emails = {}
    /\ MergeIdle

\* An unhandled exception ends the invocation.
Raise == pc' = "idle" /\ result' = "raised"

\* The secret-manager request of a _get_secret_value call, if it made one.
SecretCall(o) ==
    calls' = IF o.fetched THEN Append(calls, Call("secret", "", ~o.raised)) ELSE calls

\* time_off_tracking is entered: its locals are fresh, OKTA_ORG_URL is checked.
Invoke ==
    /\ pc = "idle"
    /\ prev' = [completed |-> result = "ok", eligible |-> long_term_emails,
                members |-> DOMAIN current_members, warned |-> warned]
    /\ calls' = <<>>
    /\ okta_group_id' = None
    /\ okta_token' = None
    /\ deel_token' = None
    /\ long_term_emails' = {}
    /\ current_members' = <<>>
    /\ to_add' = {}
    /\ to_remove' = {}
    /\ add_queue' = <<>>
    /\ remove_queue' = <<>>
    /\ user_id' = None
    /\ warned' = {}
    /\ IF OKTA_ORG_URL = ""
       THEN result' = ORG_URL_MESSAGE /\ pc' = "idle"
       ELSE result' = "running" /\ pc' = "group_id"
    /\ UNCHANGED <<configVars, OKTA_GROUP_ID, secret_cache, group,
                   mergeVars, today, user_intervals, user_amounts, entry,
                   interval_amount, consumed, epc>>

\* okta_group_id = _get_secret_value(OKTA_GROUP_ID_SECRET) or OKTA_GROUP_ID
ResolveGroupId ==
    /\ pc = "group_id"
    /\ \E o \in get_secret_value(OKTA_GROUP_ID_SECRET, secret_cache) :
          /\ SecretCall(o)
          /\ secret_cache' = o.cache
          /\ IF o.raised
             THEN Raise /\ UNCHANGED <<okta_group_id, OKTA_GROUP_ID>>
             ELSE LET gid == IF Falsy(o.value) THEN OKTA_GROUP_ID ELSE o.value
                  IN  /\ okta_group_id' = gid
                      /\ IF Falsy(gid)
                         THEN /\ result' = GROUP_ID_MESSAGE
                              /\ pc' = "idle"
                              /\ UNCHANGED OKTA_GROUP_ID
                         ELSE /\ OKTA_GROUP_ID' = gid
                              /\ pc' = "okta_token"
                              /\ UNCHANGED result
    /\ UNCHANGED <<configVars, okta_token, deel_token, planVars, group,
                   prev, mergeVars, eligVars>>

\* okta_token = _get_secret_value(OKTA_API_TOKEN_SECRET)
ResolveOktaToken ==
    /\ pc = "okta_token"
    /\ \E o \in get_secret_value(OKTA_API_TOKEN_SECRET, secret_cache) :
          /\ SecretCall(o)
          /\ secret_cache' = o.cache
          /\ IF o.raised
             THEN Raise /\ UNCHANGED okta_token
             ELSE /\ okta_token' = o.value
                  /\ IF Falsy(o.value)
                     THEN result' = OKTA_TOKEN_MESSAGE /\ pc' = "idle"
                     ELSE pc' = "deel_token" /\ UNCHANGED result
    /\ UNCHANGED <<configVars, OKTA_GROUP_ID, okta_group_id, deel_token,
                   planVars, group, prev, mergeVars, eligVars>>

\* deel_token = _get_secret_value(DEEL_API_TOKEN_SECRET)
ResolveDeelToken ==
    /\ pc = "deel_token"
    /\ \E o \in get_secret_value(DEEL_API_TOKEN_SECRET, secret_cache) :
          /\ SecretCall(o)
          /\ secret_cache' = o.cache
          /\ IF o.raised
             THEN Raise /\ UNCHANGED deel_token
             ELSE /\ deel_token' = o.value
                  /\ IF Falsy(o.value)
                     THEN result' = DEEL_TOKEN_MESSAGE /\ pc' = "idle"
                     ELSE pc' = "fetch" /\ UNCHANGED result
    /\ UNCHANGED <<configVars, OKTA_GROUP_ID, okta_group_id, okta_token,
                   planVars, group, prev, mergeVars, eligVars>>

\* long_term_emails = compute_long_term_emails(fetch_time_offs(deel_token))
FetchAndCompute ==
    /\ pc = "fetch"
    /\ \E ok \in BOOLEAN :
          /\ calls' = Append(calls, Call("time_offs", "", ok))
          /\ IF raise_for_status(ok)
             THEN /\ \E S \in SUBSET Identities :
                        long_term_emails' =
                            compute_long_term_emails(RecordsFor(S), today)
                  /\ pc' = "list"
                  /\ UNCHANGED result
             ELSE Raise /\ UNCHANGED long_term_emails
    /\ UNCHANGED <<configVars, OKTA_GROUP_ID, secret_cache, tokenVars,
                   planVars, group, prev, mergeVars, today, user_intervals,
                   user_amounts, entry, interval_amount, consumed, epc>>

\* sync_okta_group up to its first loop: the members are listed, the plan is
\* computed.
ListMembersAndPlan ==
    /\ pc = "list"
    /\ \E ok \in BOOLEAN :
          /\ calls' = Append(calls, Call("list_members", "", ok))
          /\ IF raise_for_status(ok)
             THEN /\ current_members' = okta_list_group_users
                  /\ to_add' = plan_to_add(long_term_emails, DOMAIN current_members')
                  /\ to_remove' =
                        plan_to_remove(long_term_emails, DOMAIN current_members')
                  /\ add_queue' = sorted(to_add')
                  /\ remove_queue' = sorted(to_remove')
                  /\ pc' = "sync"
                  /\ UNCHANGED result
             ELSE /\ Raise
                  /\ UNCHANGED <<current_members, to_add, to_remove, add_queue,
                                 remove_queue>>
    /\ UNCHANGED <<configVars, OKTA_GROUP_ID, secret_cache, tokenVars,
                   user_id, warned, group, prev, mergeVars, eligVars>>

\* An iteration of the add loop up to the PUT: the user is looked up.
LookupUser ==
    /\ pc = "sync"
    /\ add_queue # <<>>
    /\ \E ok \in BOOLEAN :
          /\ calls' = Append(calls, Call("lookup", Head(add_queue), ok))
          /\ IF ~raise_for_status(ok)
             THEN Raise /\ UNCHANGED <<user_id, warned, add_queue>>
             ELSE LET found == IF ok THEN okta_lookup_user_id(Head(add_queue))
                               ELSE None
                  IN  /\ user_id' = found
                      /\ IF Falsy(found)
                         THEN /\ warned' = warned \cup {Head(add_queue)}
                              /\ add_queue' = lookup_miss_continue(add_queue)
                              /\ pc' = "sync"
                         ELSE /\ pc' = "add_put"
                              /\ UNCHANGED <<warned, add_queue>>
                      /\ UNCHANGED result
    /\ UNCHANGED <<configVars, OKTA_GROUP_ID, secret_cache, tokenVars,
                   current_members, to_add, to_remove, remove_queue, group, prev,
                   mergeVars, eligVars>>

\* The rest of the iteration: PUT /groups/{OKTA_GROUP_ID}/users/{user_id}
AddMember ==
    /\ pc = "add_put"
    /\ \E ok \in BOOLEAN :
          /\ calls' = Append(calls, Call("add", Head(add_queue), ok))
          /\ group' = IF ok THEN group \cup {user_id} ELSE group
          /\ IF raise_for_status(ok)
             THEN /\ add_queue' = Tail(add_queue)
                  /\ pc' = "sync"
                  /\ UNCHANGED result
             ELSE Raise /\ UNCHANGED add_queue
    /\ UNCHANGED <<configVars, OKTA_GROUP_ID, secret_cache, tokenVars,
                   current_members, to_add, to_remove, remove_queue, user_id,
                   warned, prev, mergeVars, eligVars>>

\* An iteration of the remove loop: DELETE /groups/{OKTA_GROUP_ID}/users/{user_id}
RemoveMember ==
    /\ pc = "sync"
    /\ add_queue = <<>>
    /\ remove_queue # <<>>
    /\ user_id' = members_get(current_members, Head(remove_queue))
    /\ IF Falsy(user_id')
       THEN /\ remove_queue' = Tail(remove_queue)
            /\ UNCHANGED <<calls, group, pc, result>>
       ELSE \E ok \in BOOLEAN :
               /\ calls' = Append(calls, Call("remove", Head(remove_queue), ok))
               /\ group' = IF ok THEN group \ {user_id'} ELSE group
               /\ IF raise_for_status(ok)
                  THEN /\ remove_queue' = Tail(remove_queue)
                       /\ UNCHANGED <<pc, result>>
                  ELSE Raise /\ UNCHANGED remove_queue
    /\ UNCHANGED <<configVars, OKTA_GROUP_ID, secret_cache, tokenVars,
                   current_members, to_add, to_remove, add_queue, warned, prev,
                   mergeVars, eligVars>>

\* Both loops are over: the summary is returned.
ReturnSummary ==
    /\ pc = "sync"
    /\ add_queue = <<>>
    /\ remove_queue = <<>>
    /\ result' = "ok"
    /\ pc' = "idle"
    /\ UNCHANGED <<configVars, OKTA_GROUP_ID, secret_cache, tokenVars,
                   planVars, group, calls, prev, mergeVars, eligVars>>

Next ==
    \/ Invoke
    \/ ResolveGroupId
    \/ ResolveOktaToken
    \/ ResolveDeelToken
    \/ FetchAndCompute
    \/ ListMembersAndPlan
    \/ LookupUser
    \/ AddMember
    \/ RemoveMember
    \/ ReturnSummary

Spec == Init /\ [][Next]_vars

\* The requests of the latest invocation, by kind.
RunCalls(kinds) == {i \in 1..Len(calls) : calls[i].kind \in kinds}

CalledFor(kind, email) ==
    \E i \in RunCalls({kind}) : calls[i].email = email

Succeeded(kind) == {calls[i].email : i \in {j \in RunCalls({kind}) : calls[j].ok}}

\* sync_okta_group of the current invocation has listed the members and
\* computed its plan.
Planned == \E i \in RunCalls({"list_members"}) : calls[i].ok

\* The current invocation follows one that returned its summary, and computed
\* the same eligible set.
SecondRunSameEligible ==
    /\ Planned
    /\ prev.completed
    /\ long_term_emails = prev.eligible

\* C1: the plan of sync_okta_group is a partition: toAdd and toRemove are
\* disjoint, and the eligible set is (members - toRemove) + toAdd.
C1_PlanIsPartition ==
    Planned =>
        /\ to_add \cap to_remove = {}
        /\ long_term_emails = ((DOMAIN current_members) \ to_remove) \cup to_add

\* A plan that adds, removes and keeps.
C1_Witness ==
    /\ Planned
    /\ to_add # {}
    /\ to_remove # {}
    /\ long_term_emails \cap DOMAIN current_members # {}

\* C2 as stated: after a completed run, a second run with the same eligible set
\* computes an empty plan and issues no add or remove call.
C2_SecondRunEmptyPlan ==
    SecondRunSameEligible =>
        /\ to_add = {}
        /\ to_remove = {}
        /\ RunCalls({"add", "remove"}) = {}

\* C2 amended: after a completed run, a second run with the same eligible set
\* plans no removal, and plans to add exactly the identities whose lookup
\* returned none in the first run; when there was none, the plan is empty and
\* no lookup, add or remove call is issued.
C2_SecondRunPlansOnlyMisses ==
    SecondRunSameEligible =>
        /\ to_remove = {}
        /\ to_add = prev.warned
        /\ RunCalls({"remove"}) = {}
        /\ prev.warned = {} => RunCalls({"lookup", "add", "remove"}) = {}

\* A second run, over, after a first run that had to add and to remove and
\* missed no lookup.
C2_Witness ==
    /\ SecondRunSameEligible
    /\ result = "ok"
    /\ prev.warned = {}
    /\ prev.eligible \ prev.members # {}
    /\ prev.members \ prev.eligible # {}

LastCall == calls[Len(calls)]

\* C3: an identity whose lookup returns none gets no add call, the run is not
\* aborted by it, every other toAdd identity is still looked up and added, and
\* every toRemove identity still gets its remove call.
C3_LookupMissIsSkipped ==
    /\ \A e \in warned : ~CalledFor("add", e)
    /\ (calls # <<>> /\ LastCall.kind = "lookup"
          /\ LastCall.ok /\ LastCall.email \in warned)
          => result \in {"running", "ok"}
    /\ (Planned /\ result = "raised") => ~LastCall.ok
    /\ (Planned /\ result = "ok") =>
          /\ \A e \in to_add : CalledFor("lookup", e)
          /\ \A e \in to_add \ warned : e \in Succeeded("add")
          /\ \A e \in to_remove : e \in Succeeded("remove")

\* A completed run in which the first toAdd identity was not found, a later
\* one was added and a member was removed.
C3_Witness ==
    /\ Planned
    /\ result = "ok"
    /\ "a@x.com" \in warned
    /\ "b@x.com" \in Succeeded("add")
    /\ "c@x.com" \in Succeeded("remove")

\* C4: a failed add or remove call aborts the run: no request of the run
\* follows it, and the membership is what the calls that succeeded before it
\* made it (no rollback).
C4_FailureAbortsNoRollback ==
    /\ \A i \in 1..Len(calls) :
          (calls[i].kind \in {"add", "remove"} /\ ~calls[i].ok) => i = Len(calls)
    /\ (calls # <<>> /\ LastCall.kind \in {"add", "remove"}
          /\ ~LastCall.ok)
          => (pc = "idle" /\ result = "raised")
    /\ Planned =>
          group = ({okta_user_id(e) : e \in DOMAIN current_members}
                      \cup {okta_user_id(e) : e \in Succeeded("add")})
                  \ {okta_user_id(e) : e \in Succeeded("remove")}

\* A run aborted by a failed remove after an add and a remove that succeeded:
\* the added user is in the group, the removed one is not, the last is still in.
C4_Witness ==
    /\ Planned
    /\ result = "raised"
    /\ LastCall.kind = "remove" /\ ~LastCall.ok
    /\ Succeeded("add") # {}
    /\ Succeeded("remove") # {}
    /\ okta_user_id(LastCall.email) \in group
    /\ remove_queue # <<>>

SourceKinds == {"time_offs", "list_members", "lookup", "add", "remove"}

\* A configuration value that is not there: None or the empty string.
Missing(x) == x = None \/ x = ""

\* C5: each configuration error ends the invocation with the message of its
\* own cause, and when it is reported the invocation has issued no request to
\* the record source or to the group (list-members, lookup, add, remove); such
\* a request is only ever issued with the org URL, the group id and both tokens
\* present.
C5_ConfigErrorsBeforeNetwork ==
    /\ result \in ConfigMessages => (pc = "idle" /\ RunCalls(SourceKinds) = {})
    /\ result = ORG_URL_MESSAGE <=> (pc = "idle" /\ calls = <<>> /\ OKTA_ORG_URL = ""
                                        /\ result # "none")
    /\ result = GROUP_ID_MESSAGE => (OKTA_ORG_URL # "" /\ Missing(okta_group_id))
    /\ result = OKTA_TOKEN_MESSAGE =>
          (OKTA_ORG_URL # "" /\ ~Missing(okta_group_id) /\ Missing(okta_token))
    /\ result = DEEL_TOKEN_MESSAGE =>
          (OKTA_ORG_URL # "" /\ ~Missing(okta_group_id) /\ ~Missing(okta_token)
             /\ Missing(deel_token))
    /\ RunCalls(SourceKinds) # {} =>
          (OKTA_ORG_URL # "" /\ ~Missing(okta_group_id) /\ ~Missing(okta_token)
             /\ ~Missing(deel_token))
    /\ (result \in {"running", "ok"} /\ pc \notin {"group_id"}) => ~Missing(okta_group_id)
    /\ (result \in {"running", "ok"} /\ pc \notin {"group_id", "okta_token"})
          => ~Missing(okta_token)
    /\ (result \in {"running", "ok"} /\ pc \notin {"group_id", "okta_token", "deel_token"})
          => ~Missing(deel_token)

\* The leave-provider token is missing: its secret is configured and the
\* secret store was read, yet the resolved value is empty.
C5_Witness ==
    /\ result = DEEL_TOKEN_MESSAGE
    /\ pc = "idle"
    /\ DEEL_API_TOKEN_SECRET # ""
    /\ \E i \in 1..Len(calls) : calls[i].kind = "secret" /\ calls[i].ok
    /\ RunCalls(SourceKinds) = {}

====
